---- MODULE Spec2Model ----
(***************************************************************************)
(* A model of the HL7 class of hl7.py: one message object holding the raw  *)
(* text, the segment table, the embedded list (tree), the flat dictionary  *)
(* and the JSON-like array view, with the conversions between them.        *)
(*                                                                         *)
(* Text is a sequence of characters (one-character strings).  A Python     *)
(* str leaf of the tree is [leaf |-> text], a Python list is               *)
(* [node |-> sequence of trees].  A Python dict is a sequence of           *)
(* [k |-> key, v |-> value] entries in insertion order with unique keys.   *)
(***************************************************************************)
EXTENDS Integers, Sequences, FiniteSets, TLC

\* ------------------------------------------------------------------ bounds
MaxLines == 3
MaxFields == 2
MaxOps == 3

\* -------------------------------------------------------------- characters
NL == "\n"
CR == "\r"
FieldSep == "|"
CompSep == "^"
RepSep == "~"
Dot == "."
Underscore == "_"
Whitespace == {" ", NL, CR, "\t"}
LineBoundaries == {NL, CR}
EncodingChars == <<"^", "~", "\\", "&">>
Digits == <<"0", "1", "2", "3", "4", "5", "6", "7", "8", "9">>

\* ------------------------------------------------------------ tree values
Leaf(s) == [leaf |-> s]
Node(s) == [node |-> s]
IsLeaf(t) == "leaf" \in DOMAIN t
IsList(t) == "node" \in DOMAIN t

\* ---------------------------------------------------------- str primitives
\* str.split(sep): the pieces between the occurrences of sep, never empty.
RECURSIVE SplitFrom(_, _, _, _)
SplitFrom(s, sep, i, cur) ==
  IF i > Len(s) THEN <<cur>>
  ELSE IF s[i] = sep THEN <<cur>> \o SplitFrom(s, sep, i + 1, <<>>)
  ELSE SplitFrom(s, sep, i + 1, Append(cur, s[i]))

Split(s, sep) == SplitFrom(s, sep, 1, <<>>)

\* str.splitlines(): breaks at \n, \r and \r\n; no empty last line.
RECURSIVE SplitLinesFrom(_, _, _)
SplitLinesFrom(s, i, cur) ==
  IF i > Len(s) THEN (IF cur = <<>> THEN <<>> ELSE <<cur>>)
  ELSE IF s[i] = CR /\ i < Len(s) /\ s[i + 1] = NL
         THEN <<cur>> \o SplitLinesFrom(s, i + 2, <<>>)
  ELSE IF s[i] \in LineBoundaries
         THEN <<cur>> \o SplitLinesFrom(s, i + 1, <<>>)
  ELSE SplitLinesFrom(s, i + 1, Append(cur, s[i]))

SplitLines(s) == SplitLinesFrom(s, 1, <<>>)

\* str.strip(): leading and trailing whitespace removed.
RECURSIVE LStrip(_)
LStrip(s) == IF s # <<>> /\ Head(s) \in Whitespace THEN LStrip(Tail(s)) ELSE s

RECURSIVE RStrip(_)
RStrip(s) ==
  IF s # <<>> /\ s[Len(s)] \in Whitespace
    THEN RStrip(SubSeq(s, 1, Len(s) - 1)) ELSE s

Strip(s) == RStrip(LStrip(s))

\* s[:-1]
DropLast(s) == IF s = <<>> THEN <<>> ELSE SubSeq(s, 1, Len(s) - 1)

\* s[1:]
Rest(s) == IF s = <<>> THEN <<>> ELSE Tail(s)

\* sep in s
Contains(s, sep) == \E i \in 1..Len(s) : s[i] = sep

\* str(n) for a natural number n
RECURSIVE IntToStr(_)
IntToStr(n) ==
  IF n < 10 THEN <<Digits[n + 1]>>
  ELSE IntToStr(n \div 10) \o <<Digits[(n % 10) + 1]>>

DigitValue(c) == CHOOSE d \in 0..9 : Digits[d + 1] = c

\* int(s) for a string of decimal digits
RECURSIVE StrToInt(_)
StrToInt(s) ==
  IF Len(s) = 1 THEN DigitValue(s[1])
  ELSE 10 * StrToInt(DropLast(s)) + DigitValue(s[Len(s)])

\* ------------------------------------------------------------------ state
VARIABLES
  hl7_message,   \* self.hl7_message: the stripped original text
  _segments,     \* self._segments: the segment table
  elist,         \* self.elist: the tree
  dict,          \* self.dict: the flat mapping
  json,          \* self.json: the array view
  hl7,           \* self.hl7: the rebuilt text, Unset before list_to_hl7
  raw,           \* the text handed to the constructor
  ret,           \* the value returned by the last method call, NoValue for None
  last,          \* the last call or edit made, "init" for the constructor
  ops            \* number of calls and edits made since construction

vars == <<hl7_message, _segments, elist, dict, json, hl7, raw, ret, last, ops>>

Unset == <<"<unset>">>

\* ------------------------------------------------------ _sort_segments
RECURSIVE CountBefore(_, _, _)
CountBefore(ids, i, x) ==
  IF i = 0 THEN 0
  ELSE CountBefore(ids, i - 1, x) + (IF ids[i] = x THEN 1 ELSE 0)

\* seen[segment] when the i-th identifier is visited is the number of
\* earlier occurrences of it; the first keeps its name.
SortSegments(ids) ==
  [i \in 1..Len(ids) |->
     IF CountBefore(ids, i - 1, ids[i]) > 0
       THEN ids[i] \o <<Underscore>> \o IntToStr(CountBefore(ids, i - 1, ids[i]))
       ELSE ids[i]]

\* ------------------------------------------------------------ hl7_to_list
\* ParseField without the branch that keeps the encoding characters whole
ParseFieldSplittingEncoding(field) ==
  IF Contains(field, RepSep)
    THEN <<Node([r \in 1..Len(Split(field, RepSep)) |->
                   Node([c \in 1..Len(Split(Split(field, RepSep)[r], CompSep)) |->
                           Leaf(Split(Split(field, RepSep)[r], CompSep)[c])])])>>
  ELSE IF Len(Split(field, CompSep)) = 1
    THEN <<Leaf(Split(field, CompSep)[1])>>
  ELSE <<Node([c \in 1..Len(Split(field, CompSep)) |->
                 Leaf(Split(field, CompSep)[c])])>>

\* one field of a line, as the items it adds to segment_data
ParseField(field) ==
  IF field = EncodingChars
    THEN <<Leaf(<<FieldSep>>), Leaf(EncodingChars)>>
  ELSE IF Contains(field, RepSep)
    THEN <<Node([r \in 1..Len(Split(field, RepSep)) |->
                   Node([c \in 1..Len(Split(Split(field, RepSep)[r], CompSep)) |->
                           Leaf(Split(Split(field, RepSep)[r], CompSep)[c])])])>>
  ELSE IF Len(Split(field, CompSep)) = 1
    THEN <<Leaf(Split(field, CompSep)[1])>>
  ELSE <<Node([c \in 1..Len(Split(field, CompSep)) |->
                 Leaf(Split(field, CompSep)[c])])>>

RECURSIVE ParseFields(_, _)
ParseFields(fields, i) ==
  IF i > Len(fields) THEN <<>>
  ELSE ParseField(fields[i]) \o ParseFields(fields, i + 1)

\* fields.pop(0) of every line
SegmentIds(text) ==
  [i \in 1..Len(SplitLines(text)) |-> Head(Split(SplitLines(text)[i], FieldSep))]

ParseSegment(line) == Node(ParseFields(Tail(Split(line, FieldSep)), 1))

ParseMessage(text) ==
  Node([i \in 1..Len(SplitLines(text)) |-> ParseSegment(SplitLines(text)[i])])

\* -------------------------------------------------------------- _gen_hl7
separators == << <<>>, <<NL>>, <<FieldSep>>, <<CompSep>>, <<RepSep>> >>

\* separators[k] with Python's zero-based index
Separator(k) == separators[k + 1]

\* The rebuilt text of one list.  The loop state is the item index i, the
\* text built so far and seg_pointer; segs is self._segments.
RECURSIVE GenHl7Loop(_, _, _, _, _, _, _)
GenHl7Loop(segs, items, depth, next_segment, i, message, seg_pointer) ==
  IF i > Len(items)
    THEN DropLast(message)
           \o (IF depth < 3 THEN Separator(depth) ELSE Separator(depth + 1))
  ELSE IF IsList(items[i])
    THEN IF ~next_segment
      THEN GenHl7Loop(segs, items, depth, next_segment, i + 1,
             message \o Head(Split(segs[seg_pointer + 1], Underscore))
                     \o <<FieldSep>>
                     \o GenHl7Loop(segs, items[i].node, depth + 1, TRUE, 1, <<>>, 0),
             IF seg_pointer < Len(segs) - 1 THEN seg_pointer + 1 ELSE seg_pointer)
      ELSE GenHl7Loop(segs, items, depth, next_segment, i + 1,
             message \o GenHl7Loop(segs, items[i].node, depth + 1, TRUE, 1, <<>>, 0),
             seg_pointer)
  ELSE IF items[i].leaf = <<FieldSep>>
    THEN GenHl7Loop(segs, items, depth, next_segment, i + 1, message, seg_pointer)
  ELSE GenHl7Loop(segs, items, depth, next_segment, i + 1,
         message \o items[i].leaf
                 \o (IF depth < 3 THEN Separator(depth + 1) ELSE Separator(depth)),
         seg_pointer)

GenHl7(segs, tree) == GenHl7Loop(segs, tree.node, 0, FALSE, 1, <<>>, 0)

\* ------------------------------------------------------------- dict values
HasKey(d, k) == \E i \in 1..Len(d) : d[i].k = k

\* d[k] = v: a new key goes to the end, an old key keeps its place
DictSet(d, k, v) ==
  IF HasKey(d, k)
    THEN [i \in 1..Len(d) |-> IF d[i].k = k THEN [k |-> k, v |-> v] ELSE d[i]]
    ELSE Append(d, [k |-> k, v |-> v])

DictGet(d, k) == d[CHOOSE i \in 1..Len(d) : d[i].k = k].v

RECURSIVE DictUpdate(_, _, _)
DictUpdate(d, other, i) ==
  IF i > Len(other) THEN d
  ELSE DictUpdate(DictSet(d, other[i].k, other[i].v), other, i + 1)

\* ------------------------------------------------------------- _gen_dict
RECURSIVE GenDict(_, _, _)
RECURSIVE GenDictLoop(_, _, _, _, _)
GenDict(segs, data, path) ==
  IF IsList(data)
    THEN GenDictLoop(segs, data.node, path, 1, <<>>)
    ELSE <<[k |-> path, v |-> data.leaf]>>

GenDictLoop(segs, items, path, i, hl7_dictionary) ==
  IF i > Len(items) THEN hl7_dictionary
  ELSE GenDictLoop(segs, items, path, i + 1,
         DictUpdate(hl7_dictionary,
                    GenDict(segs, items[i],
                            IF path # <<>>
                              THEN path \o <<Dot>> \o IntToStr(i)
                              ELSE segs[i]),
                    1))

\* self._segments[index] raises IndexError when a nested list is walked with
\* an empty path and has more items than the table has entries
RECURSIVE GenDictRaises(_, _, _)
GenDictRaises(segs, data, path) ==
  /\ IsList(data)
  /\ \E i \in 1..Len(data.node) :
       IF path # <<>>
         THEN GenDictRaises(segs, data.node[i], path \o <<Dot>> \o IntToStr(i))
         ELSE i > Len(segs) \/ GenDictRaises(segs, data.node[i], segs[i])

\* ------------------------------------------------------------- _gen_json
RECURSIVE GenJson(_)
GenJson(data) ==
  IF IsList(data)
    THEN Node(<<Leaf(<<>>)>> \o [i \in 1..Len(data.node) |-> GenJson(data.node[i])])
    ELSE data

\* list_to_json: dictionary[segment] = [] and then extend
RECURSIVE ListToJsonLoop(_, _, _, _)
ListToJsonLoop(segs, items, segment_pointer, dictionary) ==
  IF segment_pointer >= Len(items) THEN dictionary
  ELSE ListToJsonLoop(segs, items, segment_pointer + 1,
         DictSet(dictionary, segs[segment_pointer + 1],
                 Node(GenJson(items[segment_pointer + 1]).node)))

\* ----------------------------------------------------------- json_to_list
RECURSIVE RemoveFillers(_)
RemoveFillers(items) ==
  [i \in 1..Len(items) |->
     IF IsLeaf(items[i]) THEN items[i]
     ELSE Node(RemoveFillers(Rest(items[i].node)))]

JsonToListValue(j) == Node(RemoveFillers([i \in 1..Len(j) |-> j[i].v]))

\* ----------------------------------------------------------- dict_to_list
\* The local variables of dict_to_list before the loop.  raised records a
\* KeyError of segments[prev_segment].
D2LStart ==
  [segments |-> <<>>, subfield_list |-> <<>>, repeats |-> <<>>,
   repeats_list |-> <<>>, prev_segment |-> <<>>, prev_depth |-> 1,
   prev_subfield_position |-> 1, prev_repeat_position |-> 1, count |-> 1,
   raised |-> FALSE]

\* segments[id].append(item)
SegAppend(st, id, item) ==
  IF HasKey(st.segments, id)
    THEN [st EXCEPT !.segments = DictSet(@, id, Append(DictGet(@, id), item))]
    ELSE [st EXCEPT !.raised = TRUE]

\* repeats_list.append(repeats) if repeats else None
CloseRepeats(st) ==
  IF st.repeats # <<>> THEN Append(st.repeats_list, Node(st.repeats))
  ELSE st.repeats_list

\* the repetition group goes to segments[segment_id]; buffers are reset
FlushRepeats(st, segment_id) ==
  [SegAppend(st, segment_id, Node(CloseRepeats(st)))
     EXCEPT !.repeats_list = <<>>, !.repeats = <<>>, !.prev_repeat_position = 1]

\* the component buffer goes to the previous segment when the segment changed
FlushSubfields(st, segment_id) ==
  [SegAppend(st,
             IF segment_id # st.prev_segment THEN st.prev_segment ELSE segment_id,
             Node(st.subfield_list))
     EXCEPT !.subfield_list = <<>>, !.prev_subfield_position = 1]

\* current_depth == prev_depth
SameDepth(st, segment_id, current_depth, parts, value) ==
  CASE current_depth = 1 -> SegAppend(st, segment_id, Leaf(value))
    [] current_depth = 2 ->
         IF st.prev_subfield_position < StrToInt(parts[2])
           THEN [SegAppend(st, segment_id, Node(st.subfield_list))
                   EXCEPT !.subfield_list = <<Leaf(value)>>,
                          !.prev_subfield_position = StrToInt(parts[2])]
           ELSE [st EXCEPT !.subfield_list = Append(@, Leaf(value))]
    [] current_depth = 3 ->
         IF st.prev_repeat_position < StrToInt(parts[3])
           THEN [st EXCEPT !.repeats_list = Append(@, Node(st.repeats)),
                           !.repeats = <<Leaf(value)>>,
                           !.prev_repeat_position = StrToInt(parts[3])]
           ELSE [st EXCEPT !.repeats = Append(@, Leaf(value))]
    [] OTHER -> st

\* current_depth > prev_depth
Deeper(st, segment_id, current_depth, parts, value) ==
  CASE current_depth = 2 ->
         [st EXCEPT !.subfield_list = Append(@, Leaf(value)),
                    !.prev_subfield_position = StrToInt(parts[2])]
    [] current_depth = 3 ->
         [(IF st.subfield_list # <<>>
             THEN [SegAppend(st, segment_id, Node(st.subfield_list))
                     EXCEPT !.subfield_list = <<>>]
             ELSE st)
            EXCEPT !.repeats = Append(@, Leaf(value)),
                   !.prev_repeat_position = StrToInt(parts[3])]
    [] OTHER -> st

\* the two flushes shared by the depth-1 case and the end of the dictionary
FlushOpen(st, segment_id) ==
  LET a == IF st.repeats_list # <<>> THEN FlushRepeats(st, segment_id) ELSE st
  IN  IF a.subfield_list # <<>> THEN FlushSubfields(a, segment_id) ELSE a

\* current_depth < prev_depth
Shallower(st, segment_id, current_depth, parts, value) ==
  CASE current_depth = 1 ->
         SegAppend(FlushOpen(st, segment_id), segment_id, Leaf(value))
    [] current_depth = 2 ->
         [FlushRepeats(st, segment_id)
            EXCEPT !.subfield_list = Append(@, Leaf(value)),
                   !.prev_subfield_position = StrToInt(parts[2])]
    [] OTHER -> st

\* one iteration of the loop over self.dict.items()
D2LStep(st, key, value, dict_size) ==
  LET parts == Split(key, Dot)
      segment_id == parts[1]
      current_depth == Len(parts) - 1
      s0 == IF HasKey(st.segments, segment_id) THEN st
            ELSE [st EXCEPT !.segments = Append(@, [k |-> segment_id, v |-> <<>>])]
      s1 == IF current_depth = st.prev_depth
              THEN SameDepth(s0, segment_id, current_depth, parts, value)
            ELSE IF current_depth > st.prev_depth
              THEN Deeper(s0, segment_id, current_depth, parts, value)
            ELSE Shallower(s0, segment_id, current_depth, parts, value)
      s2 == IF st.count = dict_size THEN FlushOpen(s1, segment_id) ELSE s1
  IN  [s2 EXCEPT !.count = @ + 1, !.prev_segment = segment_id,
                 !.prev_depth = current_depth]

RECURSIVE D2LLoop(_, _, _)
D2LLoop(d, i, st) ==
  IF i > Len(d) \/ st.raised THEN st
  ELSE D2LLoop(d, i + 1, D2LStep(st, d[i].k, d[i].v, Len(d)))

D2LFinal(d) == D2LLoop(d, 1, D2LStart)

\* result: one list per key of segments, in insertion order
DictToListValue(d) ==
  Node([i \in 1..Len(D2LFinal(d).segments) |-> Node(D2LFinal(d).segments[i].v)])

\* ---------------------------------------------------------------- inputs
\* Raw segment identifiers and field texts of the messages handed to the
\* constructor: a leaf field, a component field, a repeated field.
IdTexts == {<<"A">>, <<"A", "_", "1">>}
FieldTexts == {<<"a">>, <<"b", "^", "c">>, <<"d", "~", "e", "^", "f">>}
EditValue == <<"z">>

\* the scenario message "MSH|^~\&|App|Fac\nEVN|A01|20110613083617\n"
ScenarioText ==
  <<"M", "S", "H", "|", "^", "~", "\\", "&", "|", "A", "p", "p", "|",
    "F", "a", "c", "\n",
    "E", "V", "N", "|", "A", "0", "1", "|",
    "2", "0", "1", "1", "0", "6", "1", "3", "0", "8", "3", "6", "1", "7", "\n">>

SeqsUpTo(S, n) == UNION {[1..k -> S] : k \in 0..n}

RECURSIVE JoinFields(_, _)
JoinFields(fs, i) ==
  IF i > Len(fs) THEN <<>> ELSE <<FieldSep>> \o fs[i] \o JoinFields(fs, i + 1)

LineText(line) == line.id \o JoinFields(line.fs, 1)

RECURSIVE JoinLines(_, _)
JoinLines(ls, i) ==
  IF i > Len(ls) THEN <<>>
  ELSE LineText(ls[i]) \o (IF i < Len(ls) THEN <<NL>> ELSE <<>>) \o JoinLines(ls, i + 1)

RECURSIVE TotalFields(_, _)
TotalFields(ls, i) ==
  IF i > Len(ls) THEN 0 ELSE Len(ls[i].fs) + TotalFields(ls, i + 1)

Lines == [id : IdTexts, fs : SeqsUpTo(FieldTexts, MaxFields)]

\* at most MaxLines lines holding at most MaxFields fields altogether
Messages ==
  {JoinLines(ls, 1) : ls \in {x \in SeqsUpTo(Lines, MaxLines) :
                                TotalFields(x, 1) <= MaxFields}}
    \cup {ScenarioText}

\* messages holding a line whose segment identifier is empty: a blank line
\* or a line that starts with the field separator
BlankId == <<>>
HasBlankIdentifier(m) == Contains(SegmentIds(m), BlankId)
MalformedLines == [id : {BlankId, <<"A">>}, fs : SeqsUpTo(FieldTexts, MaxFields)]
MalformedMessages ==
  {m \in {JoinLines(ls, 1) : ls \in {x \in SeqsUpTo(MalformedLines, MaxLines) :
                                       TotalFields(x, 1) <= MaxFields}} :
     HasBlankIdentifier(m)}

NoValue == [none |-> TRUE]

\* ----------------------------------------------------------------- actions
\* __init__: hl7_to_list(hl7_message), list_to_dict(), list_to_json()
\* An IndexError of list_to_dict leaves the constructor: the caller gets no
\* object, so there is no table, tree or view and no method can be called.
ConstructRaises(m) ==
  GenDictRaises(SortSegments(SegmentIds(IF m = <<>> THEN Strip(m) ELSE m)),
                ParseMessage(IF m = <<>> THEN Strip(m) ELSE m), <<>>)

Construct(m) ==
  /\ raw = m
  /\ hl7_message = Strip(m)
  /\ hl7 = Unset
  /\ ret = NoValue
  /\ ops = 0
  /\ IF ConstructRaises(m)
       THEN /\ _segments = <<>>
            /\ elist = NoValue
            /\ dict = NoValue
            /\ json = NoValue
            /\ last = "raised"
       ELSE /\ _segments = SortSegments(SegmentIds(IF m = <<>> THEN Strip(m) ELSE m))
            /\ elist = ParseMessage(IF m = <<>> THEN Strip(m) ELSE m)
            /\ dict = GenDict(_segments, elist, <<>>)
            /\ json = ListToJsonLoop(_segments, elist.node, 0, <<>>)
            /\ last = "init"

\* the constructor returned an object
Constructed == last # "raised"

Init == \E m \in Messages : Construct(m)

MalformedInit == \E m \in MalformedMessages : Construct(m)

\* hl7_to_list() called again by the user, with no argument
HL7ToList ==
  /\ Constructed
  /\ ops < MaxOps
  /\ _segments' = SortSegments(_segments \o SegmentIds(hl7_message))
  /\ elist' = ParseMessage(hl7_message)
  /\ ret' = NoValue
  /\ last' = "hl7_to_list"
  /\ ops' = ops + 1
  /\ UNCHANGED <<hl7_message, dict, json, hl7, raw>>

ListToHl7 ==
  /\ Constructed
  /\ ops < MaxOps
  /\ hl7' = GenHl7(_segments, elist)
  /\ ret' = NoValue
  /\ last' = "list_to_hl7"
  /\ ops' = ops + 1
  /\ UNCHANGED <<hl7_message, _segments, elist, dict, json, raw>>

\* an IndexError leaves the object as it was
ListToDict ==
  /\ Constructed
  /\ ops < MaxOps
  /\ dict' = IF GenDictRaises(_segments, elist, <<>>)
               THEN dict
               ELSE GenDict(_segments, elist, <<>>)
  /\ ret' = NoValue
  /\ last' = "list_to_dict"
  /\ ops' = ops + 1
  /\ UNCHANGED <<hl7_message, _segments, elist, json, hl7, raw>>

\* a dict_to_list that would keep the array view in step with the new tree
DictToListSyncingJson ==
  /\ Constructed
  /\ ops < MaxOps
  /\ elist' = IF D2LFinal(dict).raised THEN elist ELSE DictToListValue(dict)
  /\ json' = ListToJsonLoop(_segments, elist'.node, 0, <<>>)
  /\ ret' = NoValue
  /\ last' = "dict_to_list"
  /\ ops' = ops + 1
  /\ UNCHANGED <<hl7_message, _segments, dict, hl7, raw>>

\* a KeyError leaves the object as it was
DictToList ==
  /\ Constructed
  /\ ops < MaxOps
  /\ elist' = IF D2LFinal(dict).raised THEN elist ELSE DictToListValue(dict)
  /\ ret' = NoValue
  /\ last' = "dict_to_list"
  /\ ops' = ops + 1
  /\ UNCHANGED <<hl7_message, _segments, dict, json, hl7, raw>>

ListToJson ==
  /\ Constructed
  /\ ops < MaxOps
  /\ json' = ListToJsonLoop(_segments, elist.node, 0, <<>>)
  /\ ret' = NoValue
  /\ last' = "list_to_json"
  /\ ops' = ops + 1
  /\ UNCHANGED <<hl7_message, _segments, elist, dict, hl7, raw>>

\* json_to_list returns the list and assigns nothing
JsonToList ==
  /\ Constructed
  /\ ops < MaxOps
  /\ ret' = JsonToListValue(json)
  /\ last' = "json_to_list"
  /\ ops' = ops + 1
  /\ UNCHANGED <<hl7_message, _segments, elist, dict, json, hl7, raw>>

\* the caller writes hl7.dict[key] = value for an existing key
EditDict ==
  /\ Constructed
  /\ ops < MaxOps
  /\ \E i \in 1..Len(dict) :
       /\ dict[i].v # EditValue
       /\ dict' = DictSet(dict, dict[i].k, EditValue)
  /\ last' = "edit_dict"
  /\ ops' = ops + 1
  /\ UNCHANGED <<hl7_message, _segments, elist, json, hl7, raw, ret>>

\* the caller writes hl7.json[segment][n] = value over a single-value field
EditJson ==
  /\ Constructed
  /\ ops < MaxOps
  /\ \E i \in 1..Len(json) : \E n \in 2..Len(json[i].v.node) :
       /\ IsLeaf(json[i].v.node[n])
       /\ json[i].v.node[n].leaf # EditValue
       /\ json' = [json EXCEPT ![i].v.node[n] = Leaf(EditValue)]
  /\ last' = "edit_json"
  /\ ops' = ops + 1
  /\ UNCHANGED <<hl7_message, _segments, elist, dict, hl7, raw, ret>>

Next ==
  \/ HL7ToList
  \/ ListToHl7
  \/ ListToDict
  \/ DictToList
  \/ ListToJson
  \/ JsonToList
  \/ EditDict
  \/ EditJson

Spec == Init /\ [][Next]_vars

\* the same object, constructed from a message with a blank identifier
MalformedSpec == MalformedInit /\ [][Next]_vars

\* ------------------------------------------------------- claim vocabulary
RECURSIVE NumLeaves(_)
RECURSIVE SumLeaves(_, _)
NumLeaves(t) == IF IsLeaf(t) THEN 1 ELSE SumLeaves(t.node, 1)
SumLeaves(items, i) ==
  IF i > Len(items) THEN 0 ELSE NumLeaves(items[i]) + SumLeaves(items, i + 1)

\* the leaf values of a tree, left to right
RECURSIVE LeafValues(_)
RECURSIVE LeafValuesOf(_, _)
LeafValues(t) == IF IsLeaf(t) THEN <<t.leaf>> ELSE LeafValuesOf(t.node, 1)
LeafValuesOf(items, i) ==
  IF i > Len(items) THEN <<>>
  ELSE LeafValues(items[i]) \o LeafValuesOf(items, i + 1)

Distinct(s) == \A i, j \in 1..Len(s) : i # j => s[i] # s[j]

\* A message of the wire format: every line starts with a non-empty
\* identifier that carries no disambiguation suffix.
WellFormed(m) ==
  \A i \in 1..Len(SegmentIds(m)) :
    SegmentIds(m)[i] # <<>> /\ ~Contains(SegmentIds(m)[i], Underscore)

EveryLineHasField(m) ==
  \A i \in 1..Len(SplitLines(m)) : Contains(SplitLines(m)[i], FieldSep)

KeySegment(k) == Head(Split(k, Dot))

\* the segment identifiers of a mapping, in order of first appearance
RECURSIVE KeySegments(_, _, _)
KeySegments(d, i, seen) ==
  IF i > Len(d) THEN seen
  ELSE KeySegments(d, i + 1,
         IF \E j \in 1..Len(seen) : seen[j] = KeySegment(d[i].k)
           THEN seen ELSE Append(seen, KeySegment(d[i].k)))

\* the values of the entries of one segment, in mapping order
RECURSIVE ValuesOfSegment(_, _, _)
ValuesOfSegment(d, i, seg) ==
  IF i > Len(d) THEN <<>>
  ELSE (IF KeySegment(d[i].k) = seg THEN <<d[i].v>> ELSE <<>>)
         \o ValuesOfSegment(d, i + 1, seg)

\* ------------------------------------------------------------------ C1
\* C1: for every well-formed message, the text rebuilt by list_to_hl7
\* right after construction equals the message modulo trailing whitespace.
C1_TextRoundTrip ==
  (ops = 1 /\ last = "list_to_hl7" /\ WellFormed(raw))
    => RStrip(hl7) = RStrip(raw)

\* The round trip does hold when every line has a field delimiter.
TextRoundTripWithFields ==
  (ops = 1 /\ last = "list_to_hl7" /\ WellFormed(raw) /\ EveryLineHasField(raw))
    => RStrip(hl7) = RStrip(raw)

\* ------------------------------------------------------------------ C2
\* C2: list_to_dict followed by dict_to_list leaves a tree equal to the one
\* the parser produced (here for messages whose lines all hold a field).
C2_MappingRoundTrip ==
  (ops = 1 /\ last = "dict_to_list" /\ WellFormed(raw) /\ EveryLineHasField(raw))
    => elist = ParseMessage(raw)

\* ------------------------------------------------------------------ C3
\* C3: json_to_list applied to the array view built from the parser's tree
\* returns that tree.
C3_ArrayRoundTrip ==
  (ops = 1 /\ last = "json_to_list") => ret = ParseMessage(raw)

\* The round trip does hold when the segment table has no duplicate.
ArrayRoundTripDistinctTable ==
  (ops = 1 /\ last = "json_to_list" /\ Distinct(_segments))
    => ret = ParseMessage(raw)

\* ------------------------------------------------------------------ C4
\* C4: the mapping built by list_to_dict has as many entries as the tree has
\* leaves, so no entry was overwritten while it was built.
C4_MappingBijection ==
  (last \in {"init", "list_to_dict"} /\ ops <= 1)
    => Len(dict) = NumLeaves(elist)

\* The count does hold when the segment table has no duplicate.
MappingBijectionDistinctTable ==
  (last \in {"init", "list_to_dict"} /\ ops <= 1 /\ Distinct(_segments))
    => Len(dict) = NumLeaves(elist)

\* ------------------------------------------------------------------ C5
ScenarioSegments == <<<<"M", "S", "H">>, <<"E", "V", "N">>>>

ClaimedScenarioDict ==
  <<[k |-> <<"M", "S", "H", ".", "1">>,
      v |-> <<"^", "~", "\\", "&">>],
    [k |-> <<"M", "S", "H", ".", "2">>,
      v |-> <<"A", "p", "p">>],
    [k |-> <<"M", "S", "H", ".", "3">>,
      v |-> <<"F", "a", "c">>],
    [k |-> <<"E", "V", "N", ".", "1">>,
      v |-> <<"A", "0", "1">>],
    [k |-> <<"E", "V", "N", ".", "2">>,
      v |-> <<"2", "0", "1", "1", "0", "6", "1", "3", "0", "8", "3", "6", "1", "7">>]>>

ActualScenarioDict ==
  <<[k |-> <<"M", "S", "H", ".", "1">>,
      v |-> <<"|">>],
    [k |-> <<"M", "S", "H", ".", "2">>,
      v |-> <<"^", "~", "\\", "&">>],
    [k |-> <<"M", "S", "H", ".", "3">>,
      v |-> <<"A", "p", "p">>],
    [k |-> <<"M", "S", "H", ".", "4">>,
      v |-> <<"F", "a", "c">>],
    [k |-> <<"E", "V", "N", ".", "1">>,
      v |-> <<"A", "0", "1">>],
    [k |-> <<"E", "V", "N", ".", "2">>,
      v |-> <<"2", "0", "1", "1", "0", "6", "1", "3", "0", "8", "3", "6", "1", "7">>]>>

\* C5 as stated: the scenario parses into MSH and EVN, its mapping starts at
\* MSH.1 -> "^~\&", and it re-serializes to the original text.
C5_ScenarioAsStated ==
  raw = ScenarioText
    => /\ _segments = ScenarioSegments
       /\ (ops = 0 => dict = ClaimedScenarioDict)
       /\ (ops = 1 /\ last = "list_to_hl7" => hl7 = raw)

\* C5 amended: the mapping holds the field separator at MSH.1 and the
\* encoding characters at MSH.2, and the rebuilt text is the original
\* without its final line break.
C5_Scenario ==
  raw = ScenarioText
    => /\ (ops = 0 => /\ _segments = ScenarioSegments
                      /\ Len(elist.node) = 2
                      /\ dict = ActualScenarioDict)
       /\ (ops = 1 /\ last = "list_to_hl7" => hl7 = RStrip(raw) /\ hl7 # raw)

C5_Witness == raw = ScenarioText /\ ops = 1 /\ last = "list_to_hl7"

\* the object built from the scenario message alone
ScenarioInit == Construct(ScenarioText)

ScenarioSpec == ScenarioInit /\ [][Next]_vars

\* ------------------------------------------------------------------ C6
\* the name the claim gives the i-th identifier: unchanged at its first
\* occurrence, X_k at its k-th repeat
ClaimedName(ids, i) ==
  IF CountBefore(ids, i - 1, ids[i]) = 0 THEN ids[i]
  ELSE ids[i] \o <<Underscore>> \o IntToStr(CountBefore(ids, i - 1, ids[i]))

ExampleIds ==
  <<<<"M", "S", "H">>, <<"P", "I", "D">>, <<"P", "I", "D">>, <<"O", "B", "X">>>>

ExampleTable ==
  <<<<"M", "S", "H">>, <<"P", "I", "D">>, <<"P", "I", "D", "_", "1">>,
    <<"O", "B", "X">>>>

\* C6: the segment table produced at construction has pairwise-distinct
\* entries, the k-th repeat of X being named X_k, and MSH,PID,PID,OBX gives
\* MSH,PID,PID_1,OBX.
C6_Disambiguation ==
  ops = 0 =>
    /\ Distinct(_segments)
    /\ Len(_segments) = Len(SegmentIds(raw))
    /\ \A i \in 1..Len(_segments) : _segments[i] = ClaimedName(SegmentIds(raw), i)
    /\ SortSegments(ExampleIds) = ExampleTable

\* The table is duplicate-free when no raw identifier holds an underscore.
DisambiguationPlainIdentifiers ==
  (ops = 0 /\ WellFormed(raw)) => Distinct(_segments)

\* ------------------------------------------------------------------ C7
\* C7: after json_to_list returns, the object's tree is the array view
\* without its index-0 placeholders.
C7_JsonToListStores ==
  (last = "json_to_list" /\ WellFormed(raw) /\ EveryLineHasField(raw))
    => elist = JsonToListValue(json)

\* ------------------------------------------------------------------ C8
\* both views are what list_to_dict and list_to_json build from the tree
ViewsFromSameTree ==
  /\ dict = GenDict(_segments, elist, <<>>)
  /\ json = ListToJsonLoop(_segments, elist.node, 0, <<>>)

\* view[i] for a Python index i, Missing when view is no list or too short
Missing == [missing |-> TRUE]

Index(view, i) ==
  IF IsList(view) /\ i + 1 \in 1..Len(view.node) THEN view.node[i + 1]
  ELSE Missing

RECURSIVE Descend(_, _, _)
Descend(view, parts, n) ==
  IF n > Len(parts) THEN view
  ELSE Descend(Index(view, StrToInt(parts[n])), parts, n + 1)

\* json[S][i][j][k] for the key S.i.j.k
JsonAt(j, key) ==
  IF HasKey(j, KeySegment(key))
    THEN Descend(DictGet(j, KeySegment(key)), Split(key, Dot), 2)
    ELSE Missing

RECURSIVE PlaceholderFirst(_)
PlaceholderFirst(view) ==
  IsList(view) =>
    /\ view.node # <<>>
    /\ view.node[1] = Leaf(<<>>)
    /\ \A i \in 2..Len(view.node) : PlaceholderFirst(view.node[i])

\* C8: when both views are built from the same tree, every mapping key
\* S.i, S.i.j or S.i.j.k finds its value at json[S][i], json[S][i][j] or
\* json[S][i][j][k], and index 0 of every list of the array view is the
\* empty placeholder.
C8_KeysAgreeWithIndexing ==
  ViewsFromSameTree =>
    /\ \A e \in 1..Len(dict) : JsonAt(json, dict[e].k) = Leaf(dict[e].v)
    /\ \A s \in 1..Len(json) : PlaceholderFirst(json[s].v)

\* The views do agree when the entries naming the tree's segments are distinct.
KeysAgreeDistinctTable ==
  (ViewsFromSameTree /\ Distinct(SubSeq(_segments, 1, Len(elist.node))))
    => /\ \A e \in 1..Len(dict) : JsonAt(json, dict[e].k) = Leaf(dict[e].v)
       /\ \A s \in 1..Len(json) : PlaceholderFirst(json[s].v)

KeyDepth(k) == Len(Split(k, Dot)) - 1

C8_Witness ==
  /\ ViewsFromSameTree
  /\ last = "list_to_json"
  /\ \E e \in 1..Len(dict) : KeyDepth(dict[e].k) = 3
  /\ \E e \in 1..Len(dict) : KeyDepth(dict[e].k) = 1

\* ------------------------------------------------------------------ C9
\* C9: after dict_to_list every segment's accumulator holds exactly the
\* values of that segment's mapping entries, in order: no buffer was
\* flushed into another segment's accumulator.
C9_FlushToOwningSegment ==
  (last = "dict_to_list" /\ ~D2LFinal(dict).raised) =>
    /\ Len(elist.node) = Len(KeySegments(dict, 1, <<>>))
    /\ \A s \in 1..Len(elist.node) :
         LeafValues(elist.node[s])
           = ValuesOfSegment(dict, 1, KeySegments(dict, 1, <<>>)[s])

\* ------------------------------------------------------------------ C10
\* C10: in every reachable state the segment table has exactly one entry
\* per top-level node of the tree.
C10_TableAlignedWithTree == Len(_segments) = Len(elist.node)

\* ------------------------------------------------------------------ C11
\* C11: a step of dict_to_list changes nothing but the tree (and the ghost
\* bookkeeping): the message text, the segment table, the mapping view and
\* the array view are the same before and after it; and the array view
\* changes only in a step of list_to_json or in the caller's own write to
\* it, so an edit of the mapping view does not reach the array view before
\* list_to_json is called.
C11_DictToListFrame ==
  [][/\ (last' = "dict_to_list" /\ ops' = ops + 1) =>
          /\ hl7_message' = hl7_message
          /\ _segments' = _segments
          /\ dict' = dict
          /\ json' = json
     /\ json' # json => last' \in {"list_to_json", "edit_json"}]_vars

\* the mapping view was edited and dict_to_list carried the edit into the
\* tree, while the array view is still the one built at construction
C11_Witness ==
  /\ last = "dict_to_list"
  /\ ops = 2
  /\ \E e \in 1..Len(dict) : dict[e].v = EditValue
  /\ dict # GenDict(SortSegments(SegmentIds(raw)), ParseMessage(raw), <<>>)
  /\ \E s \in 1..Len(elist.node) : Contains(LeafValues(elist.node[s]), EditValue)
  /\ json = ListToJsonLoop(SortSegments(SegmentIds(raw)), ParseMessage(raw).node, 0, <<>>)

\* ------------------------------------------------------------------ C12
\* C12: constructing an object from a message that holds a line with an
\* empty segment identifier fails with an error: there is no tree, no
\* mapping, and no segment-table entry with an empty identifier.
C12_MalformedLineFails ==
  HasBlankIdentifier(raw) =>
    /\ last = "raised"
    /\ elist = NoValue
    /\ dict = NoValue
    /\ ~Contains(_segments, BlankId)

====
